---- MODULE Spec2Model ----
(***************************************************************************)
(* The file-backed conversation journal of the MCP chat clients            *)
(* (client_python.py, client_v2.py, streamlit_mcpclientapp.py and the       *)
(* backup variants): _load_memory, _append_memory, the thread-id stamp of   *)
(* the CLI, delete_thread, and the two thread listings.                     *)
(*                                                                         *)
(* A journal file is modelled by the sequence of JSON tokens it holds, so   *)
(* that json.dump (Dump) and json.load (JsonLoad) are real conversions: a   *)
(* truncated file is a proper prefix of a dump and does not parse.          *)
(***************************************************************************)
EXTENDS Integers, Sequences, FiniteSets, TLC

\* ------------------------------------------------------------------ bounds
MaxOps == 2          \* file-changing operations per behaviour
InitLen == 19        \* entries of the long journal a behaviour may start with

\* ------------------------------------------------------- program constants
TrimLimit == 20      \* data["messages"][-20:]

NoneVal == "None"    \* Python None / JSON null
Placeholder == "--- Start a new chat ---"
DefaultLabel == "Chat"

ThreadIds == {"t1", "t2"}
Roles == {"user", "assistant"}

\* ------------------------------------------------------------- JSON values
\* One journal entry, as _append_memory builds it.
MkEntry(ts, role, text, mid) ==
  [ts |-> ts, role |-> role, text |-> text, message_id |-> mid]

NoEntry == MkEntry(0, "", "", NoneVal)

\* A parsed JSON document. type: "dict" | "list" | "scalar"; for a dict,
\* mkind says what the "messages" key holds: "list" (an array of entries),
\* "missing" (no such key) or "other" (a non-empty string).
MkDict(tid, mkind, msgs) ==
  [type |-> "dict", thread_id |-> tid, mkind |-> mkind, messages |-> msgs]

Fresh == MkDict(NoneVal, "list", <<>>)
JList == [type |-> "list", thread_id |-> NoneVal, mkind |-> "missing", messages |-> <<>>]
JScalar == [type |-> "scalar", thread_id |-> NoneVal, mkind |-> "missing", messages |-> <<>>]

\* ------------------------------------------------------------ file content
Tok(k, s, e) == [k |-> k, s |-> s, e |-> e]
T(k) == Tok(k, "", NoEntry)

\* json.dump(data, f, ...): the token sequence written for a document.
Dump(v) ==
  IF v.type = "scalar" THEN <<T("num")>>
  ELSE IF v.type = "list" THEN <<T("["), T("]")>>
  ELSE <<T("{"), Tok("thread_id", v.thread_id, NoEntry)>>
       \o (IF v.mkind = "list"
             THEN <<T("[")>>
                  \o [i \in 1..Len(v.messages) |-> Tok("entry", "", v.messages[i])]
                  \o <<T("]")>>
           ELSE IF v.mkind = "other" THEN <<T("str")>>
           ELSE <<>>)
       \o <<T("}")>>

ParseError == [raised |-> TRUE, value |-> Fresh]
Parsed(v) == [raised |-> FALSE, value |-> v]

\* json.load(f): the document a token sequence denotes; raises on anything
\* that is not a complete document (an empty or truncated file).
JsonLoad(toks) ==
  LET n == Len(toks) IN
  IF n = 0 THEN ParseError
  ELSE IF toks[1].k = "num" THEN (IF n = 1 THEN Parsed(JScalar) ELSE ParseError)
  ELSE IF toks[1].k = "[" THEN
    (IF n = 2 /\ toks[2].k = "]" THEN Parsed(JList) ELSE ParseError)
  ELSE IF toks[1].k = "{" THEN
    (IF n < 3 THEN ParseError
     ELSE IF toks[2].k # "thread_id" \/ toks[n].k # "}" THEN ParseError
     ELSE IF n = 3 THEN Parsed(MkDict(toks[2].s, "missing", <<>>))
     ELSE IF n = 4 THEN
       (IF toks[3].k = "str" THEN Parsed(MkDict(toks[2].s, "other", <<>>))
        ELSE ParseError)
     ELSE IF /\ toks[3].k = "["
             /\ toks[n - 1].k = "]"
             /\ \A i \in 4..(n - 2) : toks[i].k = "entry"
       THEN Parsed(MkDict(toks[2].s, "list", [i \in 1..(n - 5) |-> toks[i + 3].e]))
     ELSE ParseError)
  ELSE ParseError

File(toks) == [exists |-> TRUE, toks |-> toks]
Absent == [exists |-> FALSE, toks |-> <<>>]
FileOf(v) == File(Dump(v))

\* ------------------------------------------------------------ journal store
\* The variant of _load_memory without the try/except around json.load.
LoadMemoryNoCatch(c) ==
  IF c.exists
    THEN LET p == JsonLoad(c.toks) IN [raised |-> p.raised, data |-> p.value]
    ELSE [raised |-> FALSE, data |-> Fresh]

\* _load_memory(mem_path)
LoadMemory(c) ==
  IF c.exists
    THEN LET p == JsonLoad(c.toks) IN
         IF p.raised THEN [raised |-> FALSE, data |-> Fresh]
         ELSE [raised |-> FALSE, data |-> p.value]
    ELSE [raised |-> FALSE, data |-> Fresh]

\* s[-n:]
LastN(s, n) ==
  IF Len(s) <= n THEN s ELSE SubSeq(s, Len(s) - n + 1, Len(s))

\* A trim that keeps the oldest 20 entries: msgs[:20].
TrimmedKeepsOldest(msgs, variant) ==
  IF variant = "trim" /\ Len(msgs) > TrimLimit THEN SubSeq(msgs, 1, TrimLimit) ELSE msgs

\* The slice of _append_memory: the trimming variants keep the last 20.
Trimmed(msgs, variant) ==
  IF variant = "trim" THEN LastN(msgs, TrimLimit) ELSE msgs

\* An _append_memory that skips an entry the journal already holds.
AppendDataDedup(c, e, variant) ==
  LET d == LoadMemory(c).data
  IN IF d.type # "dict" \/ d.mkind = "other"
       THEN [raised |-> TRUE, data |-> d]
       ELSE LET msgs == IF d.mkind = "missing" THEN <<>> ELSE d.messages
                new == IF \E i \in 1..Len(msgs) : msgs[i] = e
                         THEN msgs ELSE Append(msgs, e)
            IN [raised |-> FALSE,
                data |-> MkDict(d.thread_id, "list", Trimmed(new, variant))]

\* An _append_memory that rewrites the ts of the entries it finds.
AppendDataRestamp(c, e, variant) ==
  LET d == LoadMemory(c).data
  IN IF d.type # "dict" \/ d.mkind = "other"
       THEN [raised |-> TRUE, data |-> d]
       ELSE LET msgs == IF d.mkind = "missing" THEN <<>> ELSE d.messages
                touched == [i \in 1..Len(msgs) |-> [msgs[i] EXCEPT !.ts = e.ts]]
            IN [raised |-> FALSE,
                data |-> MkDict(d.thread_id, "list",
                                Trimmed(Append(touched, e), variant))]

\* The document _append_memory writes back, or raised when the loaded value
\* has no setdefault (not a dict) or its "messages" has no append.
AppendData(c, e, variant) ==
  LET l == LoadMemory(c)
      d == l.data
  IN IF l.raised \/ d.type # "dict" \/ d.mkind = "other"
       THEN [raised |-> TRUE, data |-> d]
       ELSE LET msgs == IF d.mkind = "missing" THEN <<>> ELSE d.messages
            IN [raised |-> FALSE,
                data |-> MkDict(d.thread_id, "list",
                                Trimmed(Append(msgs, e), variant))]

\* An _append_memory that opens the file with mode "a" instead of "w".
AppendMemoryOpenAppend(c, e, variant) ==
  LET a == AppendData(c, e, variant)
  IN IF a.raised THEN [raised |-> TRUE, file |-> c]
     ELSE [raised |-> FALSE, file |-> File(c.toks \o Dump(a.data))]

\* _append_memory(mem_path, role, text, message_id) with every write succeeding:
\* the file afterwards (unchanged when the call raised before open("w")).
AppendMemory(c, e, variant) ==
  LET a == AppendData(c, e, variant)
  IN IF a.raised THEN [raised |-> TRUE, file |-> c]
     ELSE [raised |-> FALSE, file |-> FileOf(a.data)]

\* A stamp that writes a new empty journal for the thread id.
StampMemoryFresh(c, tid) ==
  [raised |-> FALSE, file |-> FileOf(MkDict(tid, "list", <<>>))]

\* The CLI's stamp (main: load, mem_data["thread_id"] = thread_id, dump):
\* raises when the loaded value is not a dict; changes only the thread_id.
StampMemory(c, tid) ==
  LET d == LoadMemory(c).data
  IN IF d.type # "dict" THEN [raised |-> TRUE, file |-> c]
     ELSE [raised |-> FALSE, file |-> FileOf(MkDict(tid, d.mkind, d.messages))]

\* ---------------------------------------------------------- thread listings
Truthy(s) == s # NoneVal /\ s # ""

MkItem(tid, path, label, cts, lrole, ltext) ==
  [tid |-> tid, path |-> path, label |-> label, created_ts |-> cts,
   last_role |-> lrole, last_text |-> ltext]

\* sorted(glob("conversation_*.json"), reverse=True), as thread ids
ReverseSorted == <<"t2", "t1">>

\* A label taken from the newest user entry instead of the oldest.
LastUserText(messages) ==
  LET users == {i \in 1..Len(messages) : messages[i].role = "user"}
  IN IF users = {} THEN DefaultLabel
     ELSE messages[CHOOSE i \in users : \A j \in users : j <= i].text

RECURSIVE FirstUserText(_)
\* next((msg["text"] for msg in messages if msg["role"] == "user"), "Chat")
FirstUserText(msgs) ==
  IF msgs = <<>> THEN DefaultLabel
  ELSE IF Head(msgs).role = "user" THEN Head(msgs).text
  ELSE FirstUserText(Tail(msgs))

\* threads[thread_id] = label on an insertion-ordered dict
DictSet(items, tid, label) ==
  IF \E i \in 1..Len(items) : items[i].tid = tid
    THEN [i \in 1..Len(items) |->
            IF items[i].tid = tid THEN [items[i] EXCEPT !.label = label] ELSE items[i]]
    ELSE Append(items, MkItem(tid, NoneVal, label, -1, NoneVal, NoneVal))

RECURSIVE GetAllThreadsFrom(_, _, _)
GetAllThreadsFrom(fs, i, acc) ==
  IF i > Len(ReverseSorted) THEN [raised |-> FALSE, items |-> acc]
  ELSE LET p == ReverseSorted[i]
           d == LoadMemory(fs[p]).data
       IN IF ~fs[p].exists THEN GetAllThreadsFrom(fs, i + 1, acc)
          ELSE IF d.type # "dict" THEN [raised |-> TRUE, items |-> <<>>]
          ELSE IF ~Truthy(d.thread_id) THEN GetAllThreadsFrom(fs, i + 1, acc)
          ELSE IF d.mkind = "other" THEN [raised |-> TRUE, items |-> <<>>]
          ELSE IF d.mkind = "missing" \/ d.messages = <<>>
            THEN GetAllThreadsFrom(fs, i + 1, acc)
          ELSE GetAllThreadsFrom(fs, i + 1,
                                 DictSet(acc, d.thread_id, FirstUserText(d.messages)))

\* A get_all_threads that forgets the test on mem_data.get("messages").
GetAllThreadsNoMessagesTest(fs) ==
  LET F[i \in 1..(Len(ReverseSorted) + 1)] ==
        IF i > Len(ReverseSorted) THEN <<>>
        ELSE LET p == ReverseSorted[i]
                 d == LoadMemory(fs[p]).data
             IN IF fs[p].exists /\ d.type = "dict" /\ Truthy(d.thread_id)
                  THEN <<MkItem(d.thread_id, NoneVal, FirstUserText(d.messages),
                                -1, NoneVal, NoneVal)>> \o F[i + 1]
                  ELSE F[i + 1]
  IN [raised |-> FALSE, items |-> F[1]]

\* get_all_threads()
GetAllThreads(fs) == GetAllThreadsFrom(fs, 1, <<>>)

RECURSIVE InsertDesc(_, _)
\* Position of x in a list kept in descending created_ts order, after the
\* elements it ties with (list.sort(reverse=True) is stable).
InsertDesc(sorted, x) ==
  IF sorted = <<>> THEN <<x>>
  ELSE IF Head(sorted).created_ts >= x.created_ts
    THEN <<Head(sorted)>> \o InsertDesc(Tail(sorted), x)
  ELSE <<x>> \o sorted

RECURSIVE SortDesc(_)
SortDesc(items) ==
  IF items = <<>> THEN <<>>
  ELSE InsertDesc(SortDesc(SubSeq(items, 1, Len(items) - 1)), items[Len(items)])

RECURSIVE ListSavedFrom(_, _, _, _)
ListSavedFrom(fs, order, i, acc) ==
  IF i > Len(order) THEN [raised |-> FALSE, items |-> SortDesc(acc)]
  ELSE LET p == order[i]
           d == LoadMemory(fs[p]).data
           msgs == IF d.mkind = "list" THEN d.messages ELSE <<>>
           n == Len(msgs)
       IN IF ~fs[p].exists THEN ListSavedFrom(fs, order, i + 1, acc)
          ELSE IF d.type # "dict" \/ d.mkind = "other"
            THEN [raised |-> TRUE, items |-> <<>>]
          ELSE IF Truthy(d.thread_id)
            THEN ListSavedFrom(fs, order, i + 1,
                   Append(acc,
                     IF n = 0
                       THEN MkItem(d.thread_id, p, NoneVal, -1, NoneVal, NoneVal)
                       ELSE MkItem(d.thread_id, p, NoneVal, msgs[1].ts,
                                   msgs[n].role, msgs[n].text)))
          ELSE ListSavedFrom(fs, order, i + 1, acc)

\* _list_saved_threads(), the glob yielding the files in the given order.
\* Every text of the model is shorter than 60 characters, so the snippet is
\* the text itself.
ListSavedThreads(fs, order) == ListSavedFrom(fs, order, 1, <<>>)

GlobOrders == {<<"t1", "t2">>, <<"t2", "t1">>}

\* ------------------------------------------------------------------- state
VARIABLES
  program,    \* the client running against the memory directory: "cli" | "app"
  files,      \* memory/conversation_<t>.json, per thread id: its content
  session,    \* st.session_state: thread_id, messages, selected_chat, log_messages
  remote,     \* the agent service: thread ids issued, messages per thread, agents
  wr,         \* the write in progress between open(path, "w") and close
  now,        \* the clock read by datetime.now / utcnow
  ops,        \* file-changing operations done so far
  last,       \* the last operation: its arguments, the file before, its result
  appended,   \* history: per location, the entries appended since it was absent
  clean,      \* history: the location was absent and only saw appends and stamps
  usedBy,     \* history: the variants that appended since the location was absent
  loop,       \* the interaction loop of the running client: its position and locals
  writers     \* per process inside _append_memory: the document it holds in memory

vars == <<program, files, session, remote, wr, now, ops, last, appended, clean,
          usedBy, loop, writers>>

\* client_python.py and client_v2.py append untrimmed; streamlit_mcpclientapp.py
\* keeps the last 20.
VariantOf(prog) == IF prog = "app" THEN "trim" ELSE "plain"

\* log_messages holds the kinds of the log entries of the last turn; the model
\* records the ("info", ...) entries the handler logs before threads.create
\* and before create_agent.
NewSession ==
  [thread_id |-> NoneVal, messages |-> <<>>, selected_chat |-> Placeholder,
   log_messages |-> <<>>]

MkLast(op, t, e, pre, raised, data, items) ==
  [op |-> op, t |-> t, e |-> e, pre |-> pre,
   raised |-> raised, data |-> data, items |-> items]

\* No write in progress.
NoWrite == [active |-> FALSE, op |-> "", t |-> NoneVal, e |-> NoEntry,
            pre |-> Absent, target |-> <<>>]

\* The agent service before any call of the behaviour.
NoRemote == [issued |-> {}, msgs |-> [t \in ThreadIds |-> <<>>],
             agents |-> 0, created |-> 0]

NoLast == MkLast("init", NoneVal, NoEntry, Absent, FALSE, Fresh, <<>>)

\* The interaction loop before the program starts. pc is the statement the
\* program is at; cfg says which of PROJECT_ENDPOINT / MODEL_DEPLOYMENT_NAME
\* the environment holds; the other fields are the locals of main (or of the
\* chat_input handler) and what the user was shown.
NoLoop ==
  [pc |-> "off", cfg |-> "ok", thread_id |-> NoneVal, resumed |-> NoneVal,
   agent |-> FALSE, deletes |-> 0, prompt |-> "", mid |-> NoneVal,
   run |-> "none", text |-> "", turn |-> <<>>, trace |-> <<>>,
   error |-> "none", errAt |-> "", shown |-> "none",
   called |-> FALSE, wrote |-> FALSE]

\* The processes that run a client against the same memory directory.
Procs == {"p1", "p2"}

\* No process is inside _append_memory.
NoWriters ==
  [p \in Procs |-> [pc |-> "idle", t |-> NoneVal, e |-> NoEntry, data |-> Fresh,
                    stale |-> FALSE, order |-> 0]]

\* The message id stored with an entry of the given role.
MidOf(role) == IF role = "user" THEN "m1" ELSE NoneVal

\* The text of the entries of a long conversation: the user says Hello, the
\* agent Hi.
TextOf(role) == IF role = "user" THEN "Hello" ELSE "Hi"

\* The (role, text) pairs appended by the actions.
Inputs == {<<"user", "Hello">>, <<"user", "Hi">>, <<"assistant", "Hi">>}

\* The entry the i-th turn half of a long conversation appended.
InitEntry(i) ==
  LET role == IF i % 2 = 1 THEN "user" ELSE "assistant"
  IN MkEntry(i, role, TextOf(role), MidOf(role))

\* The file after n entries were appended by the given variant to a location
\* that was absent; tid is the thread id the CLI stamped on it first (NoneVal:
\* never stamped, as in the Streamlit app, whose n = 0 leaves no file).
Built(tid, n, variant) ==
  IF n = 0 /\ tid = NoneVal THEN Absent
  ELSE FileOf(MkDict(tid, "list", Trimmed([i \in 1..n |-> InitEntry(i)], variant)))

\* A file cut off in the middle of a dump.
Truncated(c) == File(SubSeq(c.toks, 1, Len(c.toks) - 2))

\* Files a run of the clients leaves behind.
WrittenFiles(t) ==
  {Absent, Built(t, 0, "plain"), Built(t, 1, "plain"),
   Built(t, InitLen + 2, "plain"), Built(NoneVal, InitLen, "trim")}

\* Files that are damaged or were not written by the clients.
ForeignFiles(t) ==
  {File(<<>>), Truncated(Built(t, 1, "plain")),
   FileOf(JList), FileOf(JScalar),
   FileOf(MkDict(t, "missing", <<>>)), FileOf(MkDict(t, "other", <<>>))}

InitHistory ==
  /\ appended = [t \in ThreadIds |-> LoadMemory(files[t]).data.messages]
  /\ clean = [t \in ThreadIds |-> files[t] \in WrittenFiles(t)]
  /\ usedBy = [t \in ThreadIds |->
                 IF files[t] = Absent THEN {}
                 ELSE IF files[t] = Built(NoneVal, InitLen, "trim") THEN {"trim"}
                 ELSE {"plain"}]

Init ==
  /\ program \in {"cli", "app"}
  /\ files \in [ThreadIds -> UNION {WrittenFiles(t) \cup ForeignFiles(t) : t \in ThreadIds}]
  /\ files["t1"] \in WrittenFiles("t1") \cup ForeignFiles("t1")
  /\ files["t2"] = Built("t2", 1, "plain")
  /\ session = NewSession
  /\ remote = NoRemote
  /\ wr = NoWrite
  /\ now = InitLen + 2
  /\ ops = 0
  /\ last = NoLast
  /\ loop = NoLoop
  /\ writers = NoWriters
  /\ InitHistory

\* ----------------------------------------------------------------- actions
\* _append_memory(mem_path, role, text, message_id) of the running client; the
\* clock may or may not have advanced since the previous call.
AppendAct(t, role, text, mid, tick) ==
  LET ts == now + tick
      e == MkEntry(ts, role, text, mid)
      r == AppendMemory(files[t], e, VariantOf(program))
  IN /\ ops < MaxOps
     /\ ops' = ops + 1
     /\ now' = ts
     /\ files' = [files EXCEPT ![t] = r.file]
     /\ last' = MkLast("append", t, e, files[t], r.raised, Fresh, <<>>)
     /\ IF r.raised
          THEN UNCHANGED <<appended, usedBy>>
          ELSE /\ appended' = [appended EXCEPT ![t] = Append(@, e)]
               /\ usedBy' = [usedBy EXCEPT ![t] = @ \cup {VariantOf(program)}]
     /\ UNCHANGED <<loop, writers, program, remote, wr, session, clean>>

\* _load_memory(_memory_path_for_thread(t))
LoadAct(t) ==
  LET r == LoadMemory(files[t])
  IN /\ last' = MkLast("load", t, NoEntry, files[t], r.raised, r.data, <<>>)
     /\ UNCHANGED <<loop, writers, program, remote, wr, files, session, now, ops, appended, clean, usedBy>>

\* start_new_chat()
StartNewChat(s) == NewSession

\* A delete_thread that removes every conversation file of the directory.
DeleteThreadAll(t) ==
  /\ program = "app"
  /\ ops < MaxOps
  /\ ops' = ops + 1
  /\ files' = [u \in ThreadIds |-> Absent]
  /\ session' = IF session.thread_id = t THEN StartNewChat(session) ELSE session
  /\ last' = MkLast("delete", t, NoEntry, files[t], FALSE, Fresh, <<>>)
  /\ appended' = [appended EXCEPT ![t] = <<>>]
  /\ clean' = [clean EXCEPT ![t] = TRUE]
  /\ usedBy' = [usedBy EXCEPT ![t] = {}]
  /\ UNCHANGED <<loop, writers, program, remote, wr, now>>

\* A delete_thread that leaves the session as it is.
DeleteThreadKeepsSession(t) ==
  /\ program = "app"
  /\ ops < MaxOps
  /\ ops' = ops + 1
  /\ files' = [files EXCEPT ![t] = Absent]
  /\ last' = MkLast("delete", t, NoEntry, files[t], FALSE, Fresh, <<>>)
  /\ appended' = [appended EXCEPT ![t] = <<>>]
  /\ clean' = [clean EXCEPT ![t] = TRUE]
  /\ usedBy' = [usedBy EXCEPT ![t] = {}]
  /\ UNCHANGED <<loop, writers, program, remote, wr, now, session>>

\* delete_thread(thread_id)
DeleteThread(t) ==
  /\ program = "app"
  /\ ops < MaxOps
  /\ ops' = ops + 1
  /\ files' = [files EXCEPT ![t] = Absent]
  /\ session' = IF session.thread_id = t THEN StartNewChat(session) ELSE session
  /\ last' = MkLast("delete", t, NoEntry, files[t], FALSE, Fresh, <<>>)
  /\ appended' = [appended EXCEPT ![t] = <<>>]
  /\ clean' = [clean EXCEPT ![t] = TRUE]
  /\ usedBy' = [usedBy EXCEPT ![t] = {}]
  /\ UNCHANGED <<loop, writers, program, remote, wr, now>>

\* The stamp of client_python.main for thread t (new or resumed).
StampAct(t) ==
  LET r == StampMemory(files[t], t)
  IN /\ program = "cli"
     /\ ops < MaxOps
     /\ ops' = ops + 1
     /\ files' = [files EXCEPT ![t] = r.file]
     /\ last' = MkLast("stamp", t, NoEntry, files[t], r.raised, Fresh, <<>>)
     /\ UNCHANGED <<loop, writers, program, remote, wr, session, now, appended, clean, usedBy>>

\* get_all_threads()
GetAllThreadsAct ==
  LET r == GetAllThreads(files)
  IN /\ program = "app"
     /\ last' = MkLast("get_all_threads", NoneVal, NoEntry, Absent,
                       r.raised, Fresh, r.items)
     /\ UNCHANGED <<loop, writers, program, remote, wr, files, session, now, ops, appended, clean, usedBy>>

\* _list_saved_threads()
ListSavedThreadsAct(order) ==
  LET r == ListSavedThreads(files, order)
  IN /\ program = "cli"
     /\ last' = MkLast("list_saved_threads", NoneVal, NoEntry, Absent,
                       r.raised, Fresh, r.items)
     /\ UNCHANGED <<loop, writers, program, remote, wr, files, session, now, ops, appended, clean, usedBy>>

Next ==
  \/ \E t \in ThreadIds, in \in Inputs, tick \in {0, 1} :
       AppendAct(t, in[1], in[2], MidOf(in[1]), tick)
  \/ \E t \in ThreadIds : LoadAct(t)
  \/ \E t \in ThreadIds : DeleteThread(t)
  \/ \E t \in ThreadIds : StampAct(t)
  \/ GetAllThreadsAct
  \/ \E order \in GlobOrders : ListSavedThreadsAct(order)

Spec == Init /\ [][Next]_vars

\* ------------------------------------------------- writes, step by step
\* The same store with a write taken apart at its system calls: open(path, "w")
\* truncates the file, json.dump writes the document piece by piece, close
\* ends it; an OSError (disk full, quota) can end it at any piece. Another
\* process or session reads the directory in between.

\* _append_memory up to and including open(mem_path, "w").
BeginAppend(t, role, text, mid, tick) ==
  LET ts == now + tick
      e == MkEntry(ts, role, text, mid)
      a == AppendData(files[t], e, VariantOf(program))
  IN /\ ~wr.active
     /\ ops < MaxOps
     /\ ops' = ops + 1
     /\ now' = ts
     /\ IF a.raised
          THEN /\ last' = MkLast("append", t, e, files[t], TRUE, Fresh, <<>>)
               /\ UNCHANGED <<files, wr>>
          ELSE /\ files' = [files EXCEPT ![t] = File(<<>>)]
               /\ wr' = [active |-> TRUE, op |-> "append", t |-> t, e |-> e,
                         pre |-> files[t], target |-> Dump(a.data)]
               /\ UNCHANGED last
     /\ UNCHANGED <<loop, writers, program, session, remote, appended, clean, usedBy>>

\* The stamp of client_python.main up to and including open(mem_path, "w").
BeginStamp(t) ==
  LET r == StampMemory(files[t], t)
  IN /\ program = "cli"
     /\ ~wr.active
     /\ ops < MaxOps
     /\ ops' = ops + 1
     /\ IF r.raised
          THEN /\ last' = MkLast("stamp", t, NoEntry, files[t], TRUE, Fresh, <<>>)
               /\ UNCHANGED <<files, wr>>
          ELSE /\ files' = [files EXCEPT ![t] = File(<<>>)]
               /\ wr' = [active |-> TRUE, op |-> "stamp", t |-> t, e |-> NoEntry,
                         pre |-> files[t], target |-> r.file.toks]
               /\ UNCHANGED last
     /\ UNCHANGED <<loop, writers, program, session, remote, now, appended, clean, usedBy>>

\* json.dump: the next pieces of the document reach the file.
WriteChunk(n) ==
  /\ wr.active
  /\ n > Len(files[wr.t].toks)
  /\ n <= Len(wr.target)
  /\ files' = [files EXCEPT ![wr.t] = File(SubSeq(wr.target, 1, n))]
  /\ UNCHANGED <<loop, writers, program, session, remote, wr, now, ops, last, appended, clean, usedBy>>

\* The with block ends: the file is closed with the whole document in it.
CloseWrite ==
  /\ wr.active
  /\ files[wr.t].toks = wr.target
  /\ wr' = NoWrite
  /\ last' = MkLast(wr.op, wr.t, wr.e, wr.pre, FALSE, Fresh, <<>>)
  /\ IF wr.op = "append"
       THEN /\ appended' = [appended EXCEPT ![wr.t] = Append(@, wr.e)]
            /\ usedBy' = [usedBy EXCEPT ![wr.t] = @ \cup {VariantOf(program)}]
       ELSE UNCHANGED <<appended, usedBy>>
  /\ UNCHANGED <<loop, writers, program, files, session, remote, now, ops, clean>>

\* A write of json.dump raises OSError: the with block closes the file as it
\* is and the exception leaves _append_memory (or the stamp).
FailWrite ==
  /\ wr.active
  /\ Len(files[wr.t].toks) < Len(wr.target)
  /\ wr' = NoWrite
  /\ last' = MkLast(wr.op, wr.t, wr.e, wr.pre, TRUE, Fresh, <<>>)
  /\ clean' = [clean EXCEPT ![wr.t] = FALSE]
  /\ UNCHANGED <<loop, writers, program, files, session, remote, now, ops, appended, usedBy>>

\* Files the step-by-step behaviours start with.
InitIO ==
  /\ program \in {"cli", "app"}
  /\ files \in [ThreadIds -> UNION {WrittenFiles(t) : t \in ThreadIds}]
  /\ files["t1"] \in {Absent, Built("t1", 0, "plain"), Built("t1", 1, "plain")}
  /\ files["t2"] = Built("t2", 1, "plain")
  /\ session = NewSession
  /\ remote = NoRemote
  /\ wr = NoWrite
  /\ now = 1
  /\ ops = 0
  /\ last = NoLast
  /\ loop = NoLoop
  /\ writers = NoWriters
  /\ InitHistory

NextIO ==
  \/ \E t \in ThreadIds, role \in Roles :
       BeginAppend(t, role, TextOf(role), MidOf(role), 1)
  \/ \E t \in ThreadIds : BeginStamp(t)
  \/ \E n \in 1..(InitLen + 8) : WriteChunk(n)
  \/ CloseWrite
  \/ FailWrite
  \/ \E t \in ThreadIds : LoadAct(t)
  \/ GetAllThreadsAct
  \/ \E order \in GlobOrders : ListSavedThreadsAct(order)

SpecIO == InitIO /\ [][NextIO]_vars

\* ------------------------------------------------ the Streamlit session
\* Message ids the agent service hands out, in order.
MsgIdSeq == <<"m1", "m2", "m3", "m4", "m5", "m6", "m7", "m8", "m9", "m10">>

RMsg(id, role, text) == [id |-> id, role |-> role, text |-> text]

RECURSIVE SumLen(_, _)
SumLen(f, S) ==
  IF S = {} THEN 0
  ELSE LET t == CHOOSE x \in S : TRUE IN Len(f[t]) + SumLen(f, S \ {t})

\* Messages the service holds over all threads.
TotalMsgs(rem) == SumLen(rem.msgs, ThreadIds)

\* The id of the message the service creates next.
NextMsgId(rem) == MsgIdSeq[TotalMsgs(rem) + 1]

\* messages.create / the run adding a message to the thread
Post(rem, t, role, text) ==
  [rem EXCEPT !.msgs[t] = Append(@, RMsg(NextMsgId(rem), role, text))]

RECURSIVE LatestAssistant(_, _)
\* First message in descending order with role assistant (and, withText,
\* with text_messages); NoneVal id when there is none.
LatestAssistant(msgs, withText) ==
  IF msgs = <<>> THEN RMsg(NoneVal, "assistant", "")
  ELSE LET m == msgs[Len(msgs)]
       IN IF m.role = "assistant" /\ (~withText \/ m.text # "")
            THEN m
            ELSE LatestAssistant(SubSeq(msgs, 1, Len(msgs) - 1), withText)

\* _print_latest_assistant(agents_client, thread_id)
PrintLatestAssistant(rem, t) == LatestAssistant(rem.msgs[t], TRUE).text

\* next((m.id for m in msgs if m.role == "assistant"), None)
LastAssistantId(rem, t) == LatestAssistant(rem.msgs[t], FALSE).id

ViewMsg(role, content) == [role |-> role, content |-> content]

\* The points of the chat_input handler where a call of the agent service can
\* raise, and the ways a run can end.
Faults == {"none", "threads.create", "create_agent", "messages.create",
           "runs.create_and_process", "run_steps.list", "messages.list",
           "messages.list#2"}
Outcomes == {"failed", "reply", "no_text", "no_message"}

\* What can happen in one turn: a fault before the run ends the handler, so
\* the run's outcome and the agent's deletion are open only after it.
Scenarios ==
  {sc \in [fault : Faults, outcome : Outcomes, delFails : BOOLEAN] :
     /\ sc.fault \in {"threads.create", "create_agent", "messages.create",
                      "runs.create_and_process"}
          => (sc.outcome = "failed" /\ ~sc.delFails)
     /\ sc.fault \in {"run_steps.list", "messages.list", "messages.list#2"}
          => (sc.outcome # "failed" /\ ~sc.delFails)}

TurnState(sess, fs, rem, clock, done, raised, entries) ==
  [session |-> sess, files |-> fs, remote |-> rem, now |-> clock,
   done |-> done, raised |-> raised, entries |-> entries]

\* with col1: if prompt := st.chat_input(...): the handler up to the run.
\* newT is the id threads.create returns.
TurnPosted(sess, fs, rem, clock, prompt, newT, fault) ==
  LET fresh == sess.thread_id = NoneVal
      s0 == [sess EXCEPT !.messages = Append(@, ViewMsg("user", prompt)),
                         !.log_messages = IF fresh THEN <<"info">> ELSE <<>>]
      start == TurnState(s0, fs, rem, clock, FALSE, FALSE, <<>>)
  IN IF fresh /\ fault = "threads.create"
       THEN [start EXCEPT !.done = TRUE, !.raised = TRUE]
     ELSE
       LET t == IF fresh THEN newT ELSE sess.thread_id
           s1 == [s0 EXCEPT !.thread_id = t, !.log_messages = Append(@, "info")]
           r1 == IF fresh THEN [rem EXCEPT !.issued = @ \cup {t}] ELSE rem
       IN IF fault = "create_agent"
            THEN TurnState(s1, fs, r1, clock, TRUE, TRUE, <<>>)
          ELSE
            LET r2 == [r1 EXCEPT !.agents = @ + 1, !.created = @ + 1]
            IN IF fault = "messages.create"
                 THEN TurnState(s1, fs, r2, clock, TRUE, TRUE, <<>>)
               ELSE
                 LET e == MkEntry(clock + 1, "user", prompt, NextMsgId(r2))
                     r3 == Post(r2, t, "user", prompt)
                     w == AppendMemory(fs[t], e, "trim")
                 IN IF w.raised
                      THEN TurnState(s1, fs, r3, clock + 1, TRUE, TRUE, <<>>)
                      ELSE TurnState(s1, [fs EXCEPT ![t] = w.file], r3, clock + 1,
                                     FALSE, FALSE, <<e>>)

\* The handler from runs.create_and_process to the second _append_memory.
TurnRun(st, fault, outcome) ==
  LET t == st.session.thread_id
  IN IF st.done THEN st
     ELSE IF fault = "runs.create_and_process"
       THEN [st EXCEPT !.done = TRUE, !.raised = TRUE]
     ELSE IF outcome = "failed" THEN st
     ELSE
       LET r4 == IF outcome = "reply" THEN Post(st.remote, t, "assistant", "Hi")
                 ELSE IF outcome = "no_text" THEN Post(st.remote, t, "assistant", "")
                 ELSE st.remote
           ran == [st EXCEPT !.remote = r4]
       IN IF fault \in {"run_steps.list", "messages.list"}
            THEN [ran EXCEPT !.done = TRUE, !.raised = TRUE]
          ELSE
            LET text == PrintLatestAssistant(r4, t)
                s2 == [st.session EXCEPT
                         !.messages = Append(@, ViewMsg("assistant", text))]
                e == MkEntry(st.now + 1, "assistant", text, LastAssistantId(r4, t))
                w == AppendMemory(st.files[t], e, "trim")
            IN IF fault = "messages.list#2"
                 THEN [ran EXCEPT !.session = s2, !.done = TRUE, !.raised = TRUE]
               ELSE IF w.raised
                 THEN [ran EXCEPT !.session = s2, !.now = st.now + 1,
                                  !.done = TRUE, !.raised = TRUE]
                 ELSE [ran EXCEPT !.session = s2, !.now = st.now + 1,
                                  !.files = [st.files EXCEPT ![t] = w.file],
                                  !.entries = Append(@, e)]

\* try: agents_client.delete_agent(agent.id) except: warning
TurnDeleteAgent(st, delFails) ==
  IF st.done \/ delFails THEN st
  ELSE [st EXCEPT !.remote.agents = @ - 1]

\* The whole chat_input handler of streamlit_mcpclientapp.py, to st.rerun().
ChatInput(prompt, newT, fault, outcome, delFails) ==
  /\ program = "app"
  /\ ops < MaxOps
  /\ session.thread_id = NoneVal => newT \notin remote.issued
  /\ session.thread_id # NoneVal => newT = session.thread_id
  /\ \E posted \in {TurnPosted(session, files, remote, now, prompt, newT, fault)} :
     \E ran \in {TurnRun(posted, fault, outcome)} :
     \E st \in {TurnDeleteAgent(ran, delFails)} :
     \E t \in {st.session.thread_id} :
     /\ ops' = ops + 1
     /\ session' = st.session
     /\ files' = st.files
     /\ remote' = st.remote
     /\ now' = st.now
     /\ last' = MkLast("chat_input", t,
                       IF st.entries = <<>> THEN NoEntry ELSE st.entries[1],
                       IF t = NoneVal THEN Absent ELSE files[t],
                       st.raised, Fresh, <<>>)
     /\ IF t = NoneVal
          THEN UNCHANGED <<appended, usedBy>>
          ELSE /\ appended' = [appended EXCEPT ![t] = @ \o st.entries]
               /\ usedBy' = [usedBy EXCEPT ![t] =
                               IF st.entries = <<>> THEN @ ELSE @ \cup {"trim"}]
     /\ UNCHANGED <<loop, writers, program, wr, clean>>

\* st.button("New Chat", on_click=start_new_chat)
StartNewChatAct ==
  /\ program = "app"
  /\ session # NewSession
  /\ session' = StartNewChat(session)
  /\ last' = MkLast("start_new_chat", NoneVal, NoEntry, Absent, FALSE, Fresh, <<>>)
  /\ UNCHANGED <<loop, writers, program, files, remote, wr, now, ops, appended, clean, usedBy>>

\* A conversation of two entries the CLI left behind, and its remote thread.
PriorJournal(t) ==
  FileOf(MkDict(t, "list", <<MkEntry(1, "user", "Hello", "m1"),
                             MkEntry(2, "assistant", "Hi", "m2")>>))

PriorThread == <<RMsg("m1", "user", "Hello"), RMsg("m2", "assistant", "Hi")>>

InitApp ==
  /\ program = "app"
  /\ files \in [ThreadIds -> {Absent} \cup {PriorJournal(t) : t \in ThreadIds}]
  /\ files["t1"] \in {Absent, PriorJournal("t1")}
  /\ files["t2"] = Absent
  /\ session = NewSession
  /\ remote = [issued |-> {t \in ThreadIds : files[t].exists},
               msgs |-> [t \in ThreadIds |->
                           IF files[t].exists THEN PriorThread ELSE <<>>],
               agents |-> 0, created |-> 0]
  /\ wr = NoWrite
  /\ now = 2
  /\ ops = 0
  /\ last = NoLast
  /\ loop = NoLoop
  /\ writers = NoWriters
  /\ appended = [t \in ThreadIds |-> LoadMemory(files[t]).data.messages]
  /\ clean = [t \in ThreadIds |-> TRUE]
  /\ usedBy = [t \in ThreadIds |-> IF files[t].exists THEN {"plain"} ELSE {}]

NextApp ==
  \/ \E prompt \in {"Hello", "Hi"}, newT \in ThreadIds, sc \in Scenarios :
       ChatInput(prompt, newT, sc.fault, sc.outcome, sc.delFails)
  \/ StartNewChatAct
  \/ GetAllThreadsAct

SpecApp == InitApp /\ [][NextApp]_vars

\* ------------------------------------------------ the chat history column
\* The callbacks of the Streamlit page: the radio of saved conversations
\* (handle_chat_selection -> set_active_thread), New Chat, Delete Selected
\* Chat (delete_selected_chat_callback -> delete_thread), and the chat_input
\* handler as one step.

\* [{"role": msg["role"], "content": msg["text"]} for msg in messages]
ViewOf(msgs) == [k \in 1..Len(msgs) |-> ViewMsg(msgs[k].role, msgs[k].text)]

\* threads.get(thread_id, "--- Start a new chat ---")
LabelIn(items, t) ==
  IF \E i \in 1..Len(items) : items[i].tid = t
    THEN items[CHOOSE i \in 1..Len(items) : items[i].tid = t].label
    ELSE Placeholder

\* A set_active_thread that leaves the chat view as it is.
SetActiveThreadKeepsView(sess, fs, t) ==
  [raised |-> FALSE,
   session |-> [sess EXCEPT !.thread_id = t,
                            !.selected_chat = LabelIn(GetAllThreads(fs).items, t)]]

\* A set_active_thread that fills the chat view newest first.
SetActiveThreadReversed(sess, fs, t) ==
  LET m == LoadMemory(fs[t]).data.messages
  IN [raised |-> FALSE,
      session |-> [sess EXCEPT
                     !.thread_id = t,
                     !.messages = [k \in 1..Len(m) |->
                                     ViewMsg(m[Len(m) + 1 - k].role, m[Len(m) + 1 - k].text)],
                     !.selected_chat = LabelIn(GetAllThreads(fs).items, t)]]

\* set_active_thread(thread_id): the session afterwards; raised when the
\* loaded value has no get or its messages are not entries, or when
\* get_all_threads raises (the thread id is assigned before either).
SetActiveThreadOn(sess, fs, t) ==
  LET d == LoadMemory(fs[t]).data
      listed == GetAllThreads(fs)
      s1 == [sess EXCEPT !.thread_id = t]
  IN IF d.type # "dict" \/ d.mkind = "other" THEN [raised |-> TRUE, session |-> s1]
     ELSE LET s2 == [s1 EXCEPT !.messages = ViewOf(d.messages)]
          IN IF listed.raised THEN [raised |-> TRUE, session |-> s2]
             ELSE [raised |-> FALSE,
                   session |-> [s2 EXCEPT !.selected_chat = LabelIn(listed.items, t)]]

\* A resolution that takes the last thread with the selected label.
ResolveByLabelLast(items, label) ==
  LET hits == {i \in 1..Len(items) : items[i].label = label}
  IN IF hits = {} THEN [raised |-> TRUE, tid |-> NoneVal]
     ELSE [raised |-> FALSE,
           tid |-> items[CHOOSE i \in hits : \A j \in hits : j <= i].tid]

\* [tid for tid, msg in saved_threads.items() if msg == selected][0]:
\* IndexError when no label matches.
ResolveByLabel(items, label) ==
  LET hits == {i \in 1..Len(items) : items[i].label = label}
  IN IF hits = {} THEN [raised |-> TRUE, tid |-> NoneVal]
     ELSE [raised |-> FALSE,
           tid |-> items[CHOOSE i \in hits : \A j \in hits : i <= j].tid]

UIFrame == UNCHANGED <<program, remote, wr, now, loop, writers>>

\* The user picks option i of the radio (0: the placeholder, i: the i-th
\* listed conversation); the widget stores its label in selected_chat and
\* runs handle_chat_selection.
HandleChatSelection(i) ==
  /\ program = "app"
  /\ \E listed \in {GetAllThreads(files)} :
       /\ ~listed.raised
       /\ i <= Len(listed.items)
       /\ \E label \in {IF i = 0 THEN Placeholder ELSE listed.items[i].label} :
            /\ label # session.selected_chat
            /\ IF i = 0
                 THEN /\ session' = StartNewChat(session)
                      /\ last' = MkLast("select", NoneVal, NoEntry, Absent, FALSE,
                                        Fresh, <<>>)
                 ELSE \E r \in {ResolveByLabel(listed.items, label)} :
                      \E a \in {SetActiveThreadOn([session EXCEPT !.selected_chat = label],
                                                  files, r.tid)} :
                        /\ session' = a.session
                        /\ last' = MkLast("select", r.tid, NoEntry, files[r.tid],
                                          a.raised, Fresh, <<listed.items[i]>>)
  /\ UNCHANGED <<files, ops, appended, clean, usedBy>>
  /\ UIFrame

\* set_active_thread(t) called for any thread the service has issued, also
\* one whose journal has gone or is unreadable by now.
SetActiveThreadCall(t) ==
  /\ program = "app"
  /\ t \in remote.issued
  /\ \E a \in {SetActiveThreadOn(session, files, t)} :
       /\ session' = a.session
       /\ last' = MkLast("set_active_thread", t, NoEntry, files[t], a.raised,
                         Fresh, <<>>)
  /\ UNCHANGED <<files, ops, appended, clean, usedBy>>
  /\ UIFrame

\* The Delete Selected Chat button (enabled while a conversation is
\* selected): delete_selected_chat_callback().
DeleteSelectedChatCallback ==
  /\ program = "app"
  /\ session.selected_chat # Placeholder
  /\ ops < MaxOps
  /\ \E listed \in {GetAllThreads(files)} :
     \E r \in {ResolveByLabel(listed.items, session.selected_chat)} :
       /\ ~listed.raised
       /\ last' = MkLast("delete_selected", r.tid, NoEntry,
                         IF r.raised THEN Absent ELSE files[r.tid],
                         r.raised, Fresh, listed.items)
       /\ IF r.raised
            THEN UNCHANGED <<files, session, ops, appended, clean, usedBy>>
            ELSE /\ ops' = ops + 1
                 /\ files' = [files EXCEPT ![r.tid] = Absent]
                 /\ session' = IF session.thread_id = r.tid THEN StartNewChat(session)
                               ELSE session
                 /\ appended' = [appended EXCEPT ![r.tid] = <<>>]
                 /\ clean' = [clean EXCEPT ![r.tid] = TRUE]
                 /\ usedBy' = [usedBy EXCEPT ![r.tid] = {}]
  /\ UIFrame

\* A conversation of InitLen entries the CLI left behind; its first user
\* message is the only one that reads "Hi".
PriorLong(t) ==
  FileOf(MkDict(t, "list",
                [i \in 1..InitLen |->
                   IF i = 1 THEN MkEntry(1, "user", "Hi", "m1") ELSE InitEntry(i)]))

InitUI ==
  /\ program = "app"
  /\ files \in [ThreadIds -> {Absent} \cup UNION {{PriorJournal(t), PriorLong(t),
                                                   Truncated(PriorJournal(t))} :
                                                  t \in ThreadIds}]
  /\ files["t1"] \in {Absent, PriorJournal("t1"), PriorLong("t1"),
                      Truncated(PriorJournal("t1"))}
  /\ files["t2"] \in {Absent, PriorJournal("t2")}
  /\ session = NewSession
  /\ \E issued \in SUBSET ThreadIds :
       /\ {t \in ThreadIds : files[t].exists} \subseteq issued
       /\ remote = [issued |-> issued,
                    msgs |-> [t \in ThreadIds |->
                                IF t \in issued THEN PriorThread ELSE <<>>],
                    agents |-> 0, created |-> 0]
  /\ wr = NoWrite
  /\ now = InitLen + 2
  /\ ops = 0
  /\ last = NoLast
  /\ loop = NoLoop
  /\ writers = NoWriters
  /\ appended = [t \in ThreadIds |-> LoadMemory(files[t]).data.messages]
  /\ clean = [t \in ThreadIds |-> TRUE]
  /\ usedBy = [t \in ThreadIds |-> IF files[t].exists THEN {"plain"} ELSE {}]

\* The turns taken in the column's runs: a reply, a failed run, and a reply
\* whose second messages.list raises.
UIScenarios ==
  {sc \in Scenarios : /\ sc.fault \in {"none", "messages.list#2"}
                      /\ sc.outcome \in {"reply", "failed"}
                      /\ ~sc.delFails}

NextUI ==
  \/ \E i \in 0..2 : HandleChatSelection(i)
  \/ \E t \in ThreadIds : SetActiveThreadCall(t)
  \/ StartNewChatAct
  \/ DeleteSelectedChatCallback
  \/ \E t \in ThreadIds : DeleteThread(t)
  \/ \E newT \in ThreadIds, sc \in UIScenarios :
       ChatInput("Hello", newT, sc.fault, sc.outcome, sc.delFails)

SpecUI == InitUI /\ [][NextUI]_vars

\* ------------------------------------------------ the interaction loop
\* main of client_python.py and the chat_input handler of
\* streamlit_mcpclientapp.py, statement by statement: every call of the agent
\* service and every journal write is a step that can raise.

\* The thread id the running client works on.
LoopThread == IF program = "app" THEN session.thread_id ELSE loop.thread_id

\* A thread that is always created anew, whatever was chosen.
ChooseThreadAlwaysNew(existing, newT) == [tid |-> newT, created |-> TRUE]

\* if existing_thread_id: reuse it, else threads.create()
\* (if "thread_id" not in st.session_state in the app).
ChooseThread(existing, newT) ==
  IF Truthy(existing) THEN [tid |-> existing, created |-> FALSE]
  ELSE [tid |-> newT, created |-> TRUE]

\* Whether a call can reach the agent service: not without an endpoint.
Reaches == loop.cfg # "no_endpoint"

\* What open(path, "w") and an interrupted json.dump leave of a document.
FailedWrite(target, cut) ==
  File(SubSeq(target, 1, IF cut = 0 THEN 0 ELSE Len(target) - 1))

\* The tool calls a run's steps can carry: (id, type, name).
ToolCall == [id |-> "call_1", type |-> "mcp", name |-> "microsoft_docs_search"]
TraceChoices == {<<>>, <<ToolCall>>}

\* An exception leaves the statement at pc: main goes to its finally block
\* and ends; the Streamlit script run ends and the page shows the traceback.
Raise(lp, kind) ==
  [lp EXCEPT !.error = kind, !.errAt = lp.pc, !.shown = "traceback",
             !.pc = IF program = "app" THEN "idle" ELSE "finally",
             !.agent = IF program = "app" THEN FALSE ELSE @]

LoopFrame == UNCHANGED <<program, wr, writers, clean>>

\* The program starts: main checks the two settings and raises ValueError;
\* the Streamlit script initializes the session state and renders the page.
Startup ==
  /\ loop.pc = "start"
  /\ loop' = IF program = "app" THEN [loop EXCEPT !.pc = "idle"]
             ELSE IF loop.cfg = "ok" THEN [loop EXCEPT !.pc = "choose"]
             ELSE [loop EXCEPT !.pc = "exit", !.error = "config",
                               !.errAt = "start", !.shown = "config_error"]
  /\ last' = MkLast("startup", NoneVal, NoEntry, Absent, loop.cfg # "ok" /\ program = "cli",
                    Fresh, <<>>)
  /\ UNCHANGED <<files, session, remote, now, ops, appended, usedBy>>
  /\ LoopFrame

\* _choose_thread_interactive(): choice 0 is "N", choice i the i-th saved thread.
ChooseThreadInteractive(order, choice) ==
  /\ program = "cli"
  /\ loop.pc = "choose"
  /\ \E saved \in {ListSavedThreads(files, order)} :
       /\ choice <= Len(saved.items)
       /\ loop' = IF saved.raised THEN [Raise(loop, "read") EXCEPT !.pc = "exit"]
                  ELSE [loop EXCEPT !.pc = "create_agent",
                          !.resumed = IF choice = 0 THEN NoneVal
                                      ELSE saved.items[choice].tid]
       /\ last' = MkLast("choose", NoneVal, NoEntry, Absent, saved.raised, Fresh,
                         saved.items)
  /\ UNCHANGED <<files, session, remote, now, ops, appended, usedBy>>
  /\ LoopFrame

\* handle_chat_selection -> set_active_thread(thread_id) for a listed thread.
SetActiveThread(t) ==
  /\ program = "app"
  /\ loop.pc = "idle"
  /\ \E listed \in {GetAllThreads(files)} :
       /\ ~listed.raised
       /\ \E i \in 1..Len(listed.items) : listed.items[i].tid = t
       /\ session' = SetActiveThreadOn(session, files, t).session
  /\ loop' = [loop EXCEPT !.resumed = t]
  /\ last' = MkLast("set_active_thread", t, NoEntry, files[t], FALSE, Fresh, <<>>)
  /\ UNCHANGED <<files, remote, now, ops, appended, usedBy>>
  /\ LoopFrame

\* The New Chat button: start_new_chat().
NewChatClick ==
  /\ program = "app"
  /\ loop.pc = "idle"
  /\ session # NewSession
  /\ session' = StartNewChat(session)
  /\ loop' = [loop EXCEPT !.resumed = NoneVal]
  /\ last' = MkLast("start_new_chat", NoneVal, NoEntry, Absent, FALSE, Fresh, <<>>)
  /\ UNCHANGED <<files, remote, now, ops, appended, usedBy>>
  /\ LoopFrame

\* The user submits a prompt: input("YOU: ") returns it, or st.chat_input does
\* and the handler clears the log and shows the prompt in the chat view.
SubmitPrompt(prompt) ==
  /\ loop.pc = (IF program = "app" THEN "idle" ELSE "input")
  /\ ops < MaxOps
  /\ ops' = ops + 1
  /\ loop' = [loop EXCEPT !.pc = IF program = "app" THEN "thread" ELSE "post",
                          !.prompt = prompt, !.mid = NoneVal, !.run = "none",
                          !.text = "", !.turn = <<>>, !.trace = <<>>,
                          !.error = "none", !.errAt = "", !.shown = "none"]
  /\ session' = IF program = "app"
                  THEN [session EXCEPT !.messages = Append(@, ViewMsg("user", prompt)),
                                       !.log_messages = <<>>]
                  ELSE session
  /\ last' = MkLast("prompt", LoopThread, NoEntry, Absent, FALSE, Fresh, <<>>)
  /\ UNCHANGED <<files, remote, now, appended, usedBy>>
  /\ LoopFrame

\* The user types exit (or ends the input): the while loop breaks.
ExitInput ==
  /\ program = "cli"
  /\ loop.pc = "input"
  /\ loop' = [loop EXCEPT !.pc = "finally"]
  /\ last' = MkLast("exit", LoopThread, NoEntry, Absent, FALSE, Fresh, <<>>)
  /\ UNCHANGED <<files, session, remote, now, ops, appended, usedBy>>
  /\ LoopFrame

\* Create or reuse a thread; newT is the id threads.create() returns.
OpenThread(newT, ok) ==
  /\ loop.pc = "thread"
  /\ \E c \in {ChooseThread(IF program = "app" THEN session.thread_id ELSE loop.resumed,
                            newT)} :
     \E next \in {IF program = "app" THEN "create_agent" ELSE "stamp"} :
       /\ c.created => newT \notin remote.issued
       /\ IF c.created /\ ~(ok /\ Reaches)
            THEN /\ loop' = Raise(loop, "remote")
                 /\ session' = IF program = "app"
                                 THEN [session EXCEPT !.log_messages = Append(@, "info")]
                                 ELSE session
                 /\ UNCHANGED remote
                 /\ last' = MkLast("threads.create", NoneVal, NoEntry, Absent, TRUE,
                                   Fresh, <<>>)
            ELSE /\ loop' = [loop EXCEPT !.pc = next,
                               !.thread_id = IF program = "cli" THEN c.tid ELSE @,
                               !.called = @ \/ c.created]
                 /\ session' = IF program = "app"
                                 THEN [session EXCEPT
                                         !.thread_id = c.tid,
                                         !.log_messages = IF c.created THEN Append(@, "info")
                                                          ELSE @]
                                 ELSE session
                 /\ remote' = IF c.created
                                THEN [remote EXCEPT !.issued = @ \cup {c.tid}] ELSE remote
                 /\ last' = MkLast(IF c.created THEN "threads.create" ELSE "reuse_thread",
                                   c.tid, NoEntry, Absent, FALSE, Fresh, <<>>)
  /\ UNCHANGED <<files, now, ops, appended, usedBy>>
  /\ LoopFrame

\* agent = agents_client.create_agent(model=model_deployment, ...)
CreateAgent(ok) ==
  /\ loop.pc = "create_agent"
  /\ IF ok /\ loop.cfg = "ok"
       THEN /\ loop' = [loop EXCEPT !.pc = IF program = "app" THEN "post" ELSE "thread",
                                    !.agent = TRUE, !.called = TRUE]
            /\ remote' = [remote EXCEPT !.agents = @ + 1, !.created = @ + 1]
       ELSE /\ loop' = [Raise(loop, "remote") EXCEPT !.called = @ \/ Reaches]
            /\ UNCHANGED remote
  /\ last' = MkLast("create_agent", LoopThread, NoEntry, Absent,
                    ~(ok /\ loop.cfg = "ok"), Fresh, <<>>)
  /\ session' = IF program = "app"
                  THEN [session EXCEPT !.log_messages = Append(@, "info")] ELSE session
  /\ UNCHANGED <<files, now, ops, appended, usedBy>>
  /\ LoopFrame

\* main: mem_data = _load_memory(...); mem_data["thread_id"] = thread_id; dump.
Stamp(ok, cut) ==
  /\ program = "cli"
  /\ loop.pc = "stamp"
  /\ \E t \in {loop.thread_id} :
     \E r \in {StampMemory(files[t], t)} :
       /\ IF r.raised
            THEN /\ loop' = Raise(loop, "read")
                 /\ UNCHANGED files
            ELSE IF ok
              THEN /\ loop' = [loop EXCEPT !.pc = "input", !.wrote = TRUE]
                   /\ files' = [files EXCEPT ![t] = r.file]
              ELSE /\ loop' = [Raise(loop, "write") EXCEPT !.wrote = TRUE]
                   /\ files' = [files EXCEPT ![t] = FailedWrite(r.file.toks, cut)]
       /\ last' = MkLast("stamp", t, NoEntry, files[t], r.raised \/ ~ok, Fresh, <<>>)
  /\ UNCHANGED <<session, remote, now, ops, appended, usedBy>>
  /\ LoopFrame

\* user_msg = agents_client.messages.create(thread_id, role="user", content)
PostMessage(ok) ==
  /\ loop.pc = "post"
  /\ \E t \in {LoopThread} :
       /\ IF ok /\ Reaches
            THEN /\ loop' = [loop EXCEPT !.pc = "append_user", !.mid = NextMsgId(remote),
                                         !.called = TRUE]
                 /\ remote' = Post(remote, t, "user", loop.prompt)
            ELSE /\ loop' = Raise(loop, "remote")
                 /\ UNCHANGED remote
       /\ last' = MkLast("messages.create", t, NoEntry, Absent, ~(ok /\ Reaches),
                         Fresh, <<>>)
  /\ UNCHANGED <<files, session, now, ops, appended, usedBy>>
  /\ LoopFrame

\* A call _append_memory(mem_path, role, text, message_id) of the loop: the
\* write succeeds (ok) or raises OSError after open(path, "w").
LoopAppend(e, ok, cut, nextPc) ==
  \E t \in {LoopThread} :
  \E a \in {AppendData(files[t], e, VariantOf(program))} :
    /\ now' = e.ts
    /\ last' = MkLast("append", t, e, files[t], a.raised \/ ~ok, Fresh, <<>>)
    /\ IF a.raised
         THEN /\ loop' = Raise(loop, "read")
              /\ UNCHANGED <<files, appended, usedBy>>
         ELSE IF ok
           THEN /\ loop' = [loop EXCEPT !.pc = nextPc, !.turn = Append(@, e),
                                        !.wrote = TRUE]
                /\ files' = [files EXCEPT ![t] = FileOf(a.data)]
                /\ appended' = [appended EXCEPT ![t] = Append(@, e)]
                /\ usedBy' = [usedBy EXCEPT ![t] = @ \cup {VariantOf(program)}]
           ELSE /\ loop' = [Raise(loop, "write") EXCEPT !.wrote = TRUE]
                /\ files' = [files EXCEPT ![t] = FailedWrite(Dump(a.data), cut)]
                /\ UNCHANGED <<appended, usedBy>>

\* _append_memory(mem_path, role="user", text=..., message_id=user_msg.id)
AppendUser(ok, cut) ==
  /\ loop.pc = "append_user"
  /\ LoopAppend(MkEntry(now + 1, "user", loop.prompt, loop.mid), ok, cut, "run")
  /\ UNCHANGED <<session, remote, ops>>
  /\ LoopFrame

\* run = agents_client.runs.create_and_process(...), and the test of
\* run.status: the app skips the reply on "failed", main only prints it.
RunAgent(ok, outcome) ==
  /\ loop.pc = "run"
  /\ \E t \in {LoopThread} :
       /\ IF ~(ok /\ Reaches)
            THEN /\ loop' = Raise(loop, "remote")
                 /\ UNCHANGED remote
            ELSE /\ loop' = [loop EXCEPT
                     !.run = IF outcome = "failed" THEN "failed" ELSE "completed",
                     !.shown = IF outcome = "failed" THEN "run_failed" ELSE @,
                     !.pc = IF outcome = "failed" /\ program = "app"
                              THEN "delete_agent" ELSE "log_steps"]
                 /\ remote' = IF outcome = "reply" THEN Post(remote, t, "assistant", "Hi")
                              ELSE IF outcome = "no_text"
                                THEN Post(remote, t, "assistant", "")
                              ELSE remote
       /\ last' = MkLast("runs.create_and_process", t, NoEntry, Absent,
                         ~(ok /\ Reaches), Fresh, <<>>)
  /\ UNCHANGED <<files, session, now, ops, appended, usedBy>>
  /\ LoopFrame

\* A _log_run_steps that also stores the tool calls in the journal.
LogRunStepsPersist(ok, calls) ==
  /\ loop.pc = "log_steps"
  /\ loop' = [loop EXCEPT !.pc = "reply", !.trace = calls]
  /\ \E t \in {LoopThread} :
     \E d \in {LoadMemory(files[t]).data} :
       /\ files' = [files EXCEPT ![t] =
                      FileOf(MkDict(d.thread_id, "list",
                                    Append(d.messages, MkEntry(now, "tool", "call_1", NoneVal))))]
       /\ last' = MkLast("run_steps.list", t, NoEntry, Absent, FALSE, Fresh, <<>>)
  /\ UNCHANGED <<session, remote, now, ops, appended, usedBy>>
  /\ LoopFrame

\* _log_run_steps(agents_client, thread_id, run.id): the (id, type, name) of
\* every tool call goes to the terminal or to st.session_state.log_messages.
LogRunSteps(ok, calls) ==
  /\ loop.pc = "log_steps"
  /\ loop' = IF ok THEN [loop EXCEPT !.pc = "reply", !.trace = calls]
             ELSE Raise(loop, "remote")
  /\ last' = MkLast("run_steps.list", LoopThread, NoEntry, Absent, ~ok, Fresh, <<>>)
  /\ UNCHANGED <<files, session, remote, now, ops, appended, usedBy>>
  /\ LoopFrame

\* assistant_text = _print_latest_assistant(agents_client, thread_id); the app
\* shows it in the chat view, main goes on to store it only if it is not empty.
PrintReply(ok) ==
  /\ loop.pc = "reply"
  /\ \E text \in {PrintLatestAssistant(remote, LoopThread)} :
       IF ok
         THEN /\ loop' = [loop EXCEPT !.text = text,
                            !.pc = IF program = "cli" /\ text = "" THEN "input"
                                   ELSE "reply_id"]
              /\ session' = IF program = "app"
                              THEN [session EXCEPT
                                      !.messages = Append(@, ViewMsg("assistant", text))]
                              ELSE session
         ELSE /\ loop' = Raise(loop, "remote")
              /\ UNCHANGED session
  /\ last' = MkLast("messages.list", LoopThread, NoEntry, Absent, ~ok, Fresh, <<>>)
  /\ UNCHANGED <<files, remote, now, ops, appended, usedBy>>
  /\ LoopFrame

\* msgs = messages.list(...); last_assistant_id = ...;
\* _append_memory(mem_path, role="assistant", text=assistant_text, ...)
AppendAssistant(okList, ok, cut) ==
  /\ loop.pc = "reply_id"
  /\ IF okList
       THEN LoopAppend(MkEntry(now + 1, "assistant", loop.text,
                               LastAssistantId(remote, LoopThread)),
                       ok, cut, IF program = "app" THEN "delete_agent" ELSE "input")
       ELSE /\ loop' = Raise(loop, "remote")
            /\ last' = MkLast("messages.list", LoopThread, NoEntry, Absent, TRUE,
                              Fresh, <<>>)
            /\ UNCHANGED <<files, now, appended, usedBy>>
  /\ UNCHANGED <<session, remote, ops>>
  /\ LoopFrame

\* try: agents_client.delete_agent(agent.id) except Exception: warning; in main
\* this is the finally block (if agent is not None), in the app the end of the
\* handler before st.rerun().
DeleteAgent(ok) ==
  /\ loop.pc = (IF program = "app" THEN "delete_agent" ELSE "finally")
  /\ \E next \in {IF program = "app" THEN "idle" ELSE "exit"} :
       IF loop.agent
         THEN /\ loop' = [loop EXCEPT !.pc = next, !.agent = FALSE, !.deletes = @ + 1]
              /\ remote' = IF ok THEN [remote EXCEPT !.agents = @ - 1] ELSE remote
         ELSE /\ loop' = [loop EXCEPT !.pc = next]
              /\ UNCHANGED remote
  /\ last' = MkLast("delete_agent", LoopThread, NoEntry, Absent, ~ok, Fresh, <<>>)
  /\ UNCHANGED <<files, session, now, ops, appended, usedBy>>
  /\ LoopFrame

\* The memory directory and the environment the program starts with.
InitLoop ==
  /\ program \in {"cli", "app"}
  /\ files \in [ThreadIds -> {Absent} \cup {PriorJournal(t) : t \in ThreadIds}]
  /\ files["t1"] \in {Absent, PriorJournal("t1")}
  /\ files["t2"] = Absent
  /\ session = NewSession
  /\ remote = [issued |-> {t \in ThreadIds : files[t].exists},
               msgs |-> [t \in ThreadIds |->
                           IF files[t].exists THEN PriorThread ELSE <<>>],
               agents |-> 0, created |-> 0]
  /\ wr = NoWrite
  /\ now = 2
  /\ ops = 0
  /\ last = NoLast
  /\ loop \in {[NoLoop EXCEPT !.pc = "start", !.cfg = c] :
                 c \in {"ok", "no_endpoint", "no_model"}}
  /\ writers = NoWriters
  /\ appended = [t \in ThreadIds |-> LoadMemory(files[t]).data.messages]
  /\ clean = [t \in ThreadIds |-> TRUE]
  /\ usedBy = [t \in ThreadIds |-> IF files[t].exists THEN {"plain"} ELSE {}]

NextLoop ==
  \/ Startup
  \/ \E order \in GlobOrders, choice \in 0..1 : ChooseThreadInteractive(order, choice)
  \/ \E t \in ThreadIds : SetActiveThread(t)
  \/ NewChatClick
  \/ SubmitPrompt("Hello")
  \/ ExitInput
  \/ \E newT \in ThreadIds, ok \in BOOLEAN : OpenThread(newT, ok)
  \/ \E ok \in BOOLEAN : CreateAgent(ok)
  \/ \E ok \in BOOLEAN, cut \in {0, 1} : Stamp(ok, cut)
  \/ \E ok \in BOOLEAN : PostMessage(ok)
  \/ \E ok \in BOOLEAN, cut \in {0, 1} : AppendUser(ok, cut)
  \/ \E ok \in BOOLEAN, outcome \in Outcomes : RunAgent(ok, outcome)
  \/ \E ok \in BOOLEAN, calls \in TraceChoices : LogRunSteps(ok, calls)
  \/ \E ok \in BOOLEAN : PrintReply(ok)
  \/ \E okList \in BOOLEAN, ok \in BOOLEAN, cut \in {0, 1} : AppendAssistant(okList, ok, cut)
  \/ \E ok \in BOOLEAN : DeleteAgent(ok)

SpecLoop == InitLoop /\ [][NextLoop]_vars

\* ------------------------------------------------ two writers, one journal
\* Two processes (two CLI runs, or two browser sessions of the app) append to
\* journals of the same memory directory. _append_memory is taken apart at the
\* point between its _load_memory and its open(path, "w"); the write itself is
\* one step here.

\* A write-back that reads the file again and adds only the new entry to it.
WriteBackMerged(c, doc) ==
  LET d == LoadMemory(c).data
  IN FileOf(MkDict(d.thread_id, "list",
                   Append(d.messages, doc.messages[Len(doc.messages)])))

\* with mem_path.open("w") as f: json.dump(data, f): the file becomes the
\* document the process holds, whatever the file holds by now.
WriteBack(c, doc) == FileOf(doc)

\* The message id the post of process p returned.
MidOfProc(p) == IF p = "p1" THEN "m1" ELSE "m2"

\* Process p enters _append_memory for thread t: data = _load_memory(mem_path),
\* data["messages"].append(entry) and the slice, all in memory.
WLoad(p, t, role) ==
  /\ writers[p].pc = "idle"
  /\ \E e \in {MkEntry(now + 1, role, TextOf(role), MidOfProc(p))} :
     \E a \in {AppendData(files[t], e, VariantOf(program))} :
       /\ ~a.raised
       /\ writers' = [writers EXCEPT ![p] =
                        [pc |-> "loaded", t |-> t, e |-> e, data |-> a.data,
                         stale |-> FALSE, order |-> 0]]
       /\ now' = now + 1
       /\ last' = MkLast("load", t, e, files[t], FALSE, a.data, <<>>)
  /\ UNCHANGED <<program, files, session, remote, wr, ops, appended, clean, usedBy, loop>>

\* Process p writes its document back and leaves _append_memory. Every other
\* process that has loaded the same journal and not yet written now holds a
\* document that lacks p's entry.
WWrite(p) ==
  /\ writers[p].pc = "loaded"
  /\ \E t \in {writers[p].t} :
       /\ files' = [files EXCEPT ![t] = WriteBack(files[t], writers[p].data)]
       /\ writers' = [q \in Procs |->
                        IF q = p THEN [writers[p] EXCEPT !.pc = "done", !.order = ops + 1]
                        ELSE IF writers[q].pc = "loaded" /\ writers[q].t = t
                          THEN [writers[q] EXCEPT !.stale = TRUE]
                        ELSE writers[q]]
       /\ last' = MkLast("append", t, writers[p].e, files[t], FALSE, Fresh, <<>>)
       /\ appended' = [appended EXCEPT ![t] = Append(@, writers[p].e)]
       /\ usedBy' = [usedBy EXCEPT ![t] = @ \cup {VariantOf(program)}]
  /\ ops' = ops + 1
  /\ UNCHANGED <<program, session, remote, wr, now, clean, loop>>

InitRace ==
  /\ program \in {"cli", "app"}
  /\ files \in [ThreadIds -> UNION {WrittenFiles(t) : t \in ThreadIds}]
  /\ files["t1"] \in {Absent, Built("t1", 0, "plain"), Built("t1", 1, "plain")}
  /\ files["t2"] = Built("t2", 1, "plain")
  /\ session = NewSession
  /\ remote = NoRemote
  /\ wr = NoWrite
  /\ now = 1
  /\ ops = 0
  /\ last = NoLast
  /\ loop = NoLoop
  /\ writers = NoWriters
  /\ InitHistory

NextRace ==
  \/ \E p \in Procs, t \in ThreadIds, role \in Roles : WLoad(p, t, role)
  \/ \E p \in Procs : WWrite(p)

SpecRace == InitRace /\ [][NextRace]_vars

\* ------------------------------------------------------------------ claims
Min(a, b) == IF a <= b THEN a ELSE b

Unparseable(c) == c.exists /\ JsonLoad(c.toks).raised

HasDuplicate(msgs) ==
  \E i, j \in 1..Len(msgs) : i < j /\ msgs[i] = msgs[j]

\* C1: load after N appends to a location that started absent returns N
\* entries (untrimmed variants) or min(N, 20) entries (trimming variant), in
\* append order, with equal entries kept twice.
C1_LoadReturnsAppendsInOrder ==
  (last.op = "load" /\ clean[last.t]) =>
    LET msgs == last.data.messages
        all == appended[last.t]
        n == Len(all)
    IN /\ ~last.raised
       /\ usedBy[last.t] \subseteq {"plain"} => (Len(msgs) = n /\ msgs = all)
       /\ usedBy[last.t] \subseteq {"trim"} =>
            /\ Len(msgs) = Min(n, TrimLimit)
            /\ msgs = SubSeq(all, n - Len(msgs) + 1, n)

C1_Witness ==
  /\ last.op = "load"
  /\ clean[last.t]
  /\ usedBy[last.t] = {"trim"}
  /\ Len(appended[last.t]) > TrimLimit
  /\ HasDuplicate(last.data.messages)

\* C2: in the trimming variant every append leaves at most 20 entries, and
\* they are the most recently appended ones in their original order.
C2_TrimKeepsNewest ==
  (program = "app" /\ last.op = "append" /\ ~last.raised) =>
    LET msgs == LoadMemory(files[last.t]).data.messages
        all == appended[last.t]
    IN /\ Len(msgs) <= TrimLimit
       /\ msgs[Len(msgs)] = last.e
       /\ clean[last.t] => msgs = LastN(all, TrimLimit)

C2_Witness ==
  /\ program = "app"
  /\ last.op = "append"
  /\ clean[last.t]
  /\ Len(appended[last.t]) > TrimLimit
  /\ Len(LoadMemory(files[last.t]).data.messages) = TrimLimit

\* C3: load of a missing or unparseable file returns the fresh empty journal
\* and does not raise.
C3_LoadFailsOpen ==
  (last.op = "load" /\ (~last.pre.exists \/ Unparseable(last.pre))) =>
    (~last.raised /\ last.data = Fresh)

C3_Witness ==
  last.op = "load" /\ Unparseable(last.pre) /\ Len(last.pre.toks) > 0

\* Well-formed JSON that is not {thread_id, messages: [...]}.
WrongStructure(c) ==
  /\ c.exists
  /\ ~JsonLoad(c.toks).raised
  /\ LET v == JsonLoad(c.toks).value IN v.type # "dict" \/ v.mkind # "list"

\* C4: load of well-formed JSON of the wrong structure returns the fresh empty
\* journal, and an append or a listing that meets such a file does not raise.
C4_WrongStructureLoadsFresh ==
  /\ (last.op = "load" /\ WrongStructure(last.pre)) => last.data = Fresh
  /\ (last.op = "append" /\ WrongStructure(last.pre)) => ~last.raised
  /\ last.op \in {"get_all_threads", "list_saved_threads"} => ~last.raised

\* C5: an append to a missing or unparseable file leaves the file that the same
\* append leaves on a fresh empty journal, and that file loads as the one entry.
C5_AppendToCorruptIsAppendToFresh ==
  (last.op = "append" /\ (~last.pre.exists \/ Unparseable(last.pre))) =>
    /\ ~last.raised
    /\ files[last.t] = AppendMemory(FileOf(Fresh), last.e, VariantOf(program)).file
    /\ ~JsonLoad(files[last.t].toks).raised
    /\ LoadMemory(files[last.t]) = [raised |-> FALSE,
                                    data |-> MkDict(NoneVal, "list", <<last.e>>)]

C5_Witness ==
  last.op = "append" /\ Unparseable(last.pre) /\ Len(last.pre.toks) > 0

\* C6: after delete_thread(t) a load of t returns the fresh empty journal; the
\* delete does not raise, also when t is already absent, and leaves every
\* other journal as it was.
C6_DeleteIsIdempotent ==
  [][\A t \in ThreadIds :
       DeleteThread(t) =>
         /\ ~last'.raised
         /\ LoadMemory(files'[t]) = [raised |-> FALSE, data |-> Fresh]
         /\ \A u \in ThreadIds \ {t} : files'[u] = files[u]]_vars

C6_Witness ==
  /\ last.op = "delete"
  /\ ~last.pre.exists
  /\ \E u \in ThreadIds \ {last.t} : files[u].exists

\* C7: a load that runs while an append (or stamp) is writing the file sees
\* the complete content before the write or the complete content after it.
C7_ReaderNeverSeesPartialFile ==
  (last.op = "load" /\ wr.active /\ wr.t = last.t) =>
    (last.pre = wr.pre \/ last.pre = File(wr.target))

\* C8: after a write of an append or stamp failed, the journal file holds the
\* complete content it had before the write began.
C8_FailedWriteKeepsOldContent ==
  (last.op \in {"append", "stamp"} /\ last.raised /\ ~wr.active) =>
    files[last.t] = last.pre

\* The journal a listed item stands for: the file named after its thread id.
JournalOf(item) == LoadMemory(files[item.tid]).data

IsListing == last.op \in {"get_all_threads", "list_saved_threads"} /\ ~last.raised

HasUserEntry(d) ==
  d.mkind = "list" /\ \E i \in 1..Len(d.messages) : d.messages[i].role = "user"

\* C10: get_all_threads returns exactly one entry per journal that has a
\* user entry, labelled with the text of its first user entry and keyed by
\* that journal's thread id; so a conversation of the Streamlit app is listed
\* once its first user message is appended.
C10_EveryUserJournalListed ==
  (last.op = "get_all_threads" /\ ~last.raised) =>
    \A t \in ThreadIds :
      (files[t].exists /\ HasUserEntry(LoadMemory(files[t]).data)) =>
        /\ Cardinality({i \in 1..Len(last.items) : last.items[i].tid = t}) = 1
        /\ \A i \in 1..Len(last.items) :
             last.items[i].tid = t =>
               last.items[i].label = FirstUserText(LoadMemory(files[t]).data.messages)

\* The entries of the journal file of thread t, as a load returns them.
EntriesOf(t) == LoadMemory(files[t]).data.messages

\* The loop is between turns or has ended.
AtRest == loop.pc \in {"idle", "input", "exit"}

\* The statements of one user turn.
TurnSteps == {"post", "append_user", "run", "log_steps", "reply", "reply_id"}

\* C11: the interaction loop stamps the journal of a new conversation with the
\* thread id the service issued before any message is appended, so a journal
\* that holds an entry has a thread_id, and it is the id of its remote thread.
C11_JournalStampedBeforeMessages ==
  \A t \in ThreadIds :
    (files[t].exists /\ EntriesOf(t) # <<>>) =>
      /\ LoadMemory(files[t]).data.thread_id = t
      /\ t \in remote.issued

\* C12: a turn whose run reported status failed appends exactly one entry, the
\* user entry, and no assistant entry.
C12_FailedRunAppendsNoAssistant ==
  loop.run = "failed" => (Len(loop.turn) = 1 /\ loop.turn[1].role = "user")

\* C13: in every turn the user message is posted first, the user entry is
\* appended with the id the post returned before the run is triggered, and an
\* assistant entry is appended only after a successful run; every user entry
\* has a message_id, and a successful turn adds a user entry followed by an
\* assistant entry.
C13_TurnOrder ==
  /\ \A t \in ThreadIds : \A i \in 1..Len(EntriesOf(t)) :
       EntriesOf(t)[i].role = "user" => EntriesOf(t)[i].message_id # NoneVal
  /\ loop.turn # <<>> =>
       /\ loop.mid # NoneVal
       /\ loop.turn[1] = MkEntry(loop.turn[1].ts, "user", loop.prompt, loop.mid)
  /\ loop.run # "none" => loop.turn # <<>>
  /\ Len(loop.turn) > 1 =>
       /\ loop.run = "completed"
       /\ Len(loop.turn) = 2
       /\ loop.turn[2].role = "assistant"
  /\ (AtRest /\ loop.run = "completed" /\ loop.error = "none" /\ loop.text # "")
       => Len(loop.turn) = 2

C15_EveryAgentDeleted ==
  loop.pc \in {"idle", "exit"} => loop.deletes = remote.created

\* C16: with PROJECT_ENDPOINT or MODEL_DEPLOYMENT_NAME missing the program
\* reports a configuration error and goes no further: no call reaches the
\* agent service and no journal file is written.
C16_MissingConfigStopsAtStartup ==
  loop.cfg # "ok" =>
    /\ ~loop.called
    /\ ~loop.wrote
    /\ loop.shown \in {"none", "config_error"}
    /\ loop.pc = "exit" => loop.shown = "config_error"

\* C17: a write error of _append_memory during a turn is shown as a warning
\* and the turn goes on: the loop is not left, and the run is still made.
C17_WriteErrorDoesNotCrashTurn ==
  (loop.error = "write" /\ loop.errAt \in TurnSteps) =>
    /\ loop.shown = "warning"
    /\ loop.pc \notin {"finally", "exit"}
    /\ (loop.errAt = "append_user" /\ AtRest) => loop.run # "none"

\* C18: when a call of the agent service raises during a turn of the command
\* line loop, the turn is aborted and the loop accepts the next turn.
C18_RemoteErrorKeepsLoopAlive ==
  (program = "cli" /\ loop.error = "remote" /\ loop.errAt \in TurnSteps) =>
    loop.pc \notin {"finally", "exit"}

\* C19: once a saved thread is chosen, no thread is created while it stays
\* chosen; every post, run and journal append of the following turns uses the
\* chosen thread id, and no other thread or journal file changes.
C19_ResumeReusesThread ==
  /\ [](loop.resumed # NoneVal =>
          /\ last.op # "threads.create"
          /\ last.op \in {"messages.create", "runs.create_and_process", "append"}
               => last.t = loop.resumed)
  /\ [][(loop.resumed # NoneVal /\ loop'.resumed = loop.resumed) =>
          /\ remote'.issued = remote.issued
          /\ \A u \in ThreadIds \ {loop.resumed} :
               files'[u] = files[u] /\ remote'.msgs[u] = remote.msgs[u]]_vars

C19_Witness ==
  /\ loop.resumed # NoneVal
  /\ last.op = "append"
  /\ Len(loop.turn) = 2
  /\ Len(EntriesOf(loop.resumed)) = 4

\* Position of entry e in msgs, 0 when it is not there.
IndexOf(msgs, e) ==
  IF \E i \in 1..Len(msgs) : msgs[i] = e
    THEN CHOOSE i \in 1..Len(msgs) : msgs[i] = e
    ELSE 0

\* Both processes have appended to the same journal, q after p.
WroteAfter(p, q) ==
  /\ writers[p].pc = "done"
  /\ writers[q].pc = "done"
  /\ writers[p].t = writers[q].t
  /\ writers[p].order < writers[q].order

\* C20: nothing coordinates two processes that append to the same journal, and
\* the later write wins: when the second writer loaded before the first wrote,
\* the file ends up with the second entry and without the first (a lost
\* update); when the appends do not overlap, it holds both in append order.
C20_LaterWriteWins ==
  \A p, q \in Procs :
    WroteAfter(p, q) =>
      LET msgs == EntriesOf(writers[q].t)
          n == Len(msgs)
      IN /\ n > 0
         /\ msgs[n] = writers[q].e
         /\ writers[q].stale => IndexOf(msgs, writers[p].e) = 0
         /\ ~writers[q].stale => (n > 1 /\ msgs[n - 1] = writers[p].e)

C20_Witness ==
  \E p, q \in Procs :
    /\ WroteAfter(p, q)
    /\ writers[q].stale
    /\ Len(EntriesOf(writers[q].t)) < Len(appended[writers[q].t])

\* The assistant messages the agent service holds for the loop's thread.
RemoteAssistant ==
  IF LoopThread = NoneVal THEN {}
  ELSE {m \in {remote.msgs[LoopThread][k] : k \in 1..Len(remote.msgs[LoopThread])} :
          m.role = "assistant"}

\* C21: every assistant entry a turn appends carries the non-empty text of an
\* assistant message of the remote thread; a run that leaves no assistant
\* message with text appends no assistant entry.
C21_AssistantEntriesHaveText ==
  \A i \in 1..Len(loop.turn) :
    loop.turn[i].role = "assistant" =>
      /\ loop.turn[i].text # ""
      /\ \E m \in RemoteAssistant : m.text = loop.turn[i].text

\* C26: the message_id stored with an assistant entry is the id of the remote
\* message whose text the entry holds.
C26_AssistantIdMatchesText ==
  \A i \in 1..Len(loop.turn) :
    (loop.turn[i].role = "assistant" /\ loop.turn[i].message_id # NoneVal) =>
      \E m \in RemoteAssistant :
        m.id = loop.turn[i].message_id /\ m.text = loop.turn[i].text

\* The entries a journal file holds, as a load returns them.
JournalEntries(c) == LoadMemory(c).data.messages

\* C22: no operation changes a stored entry or removes a single one: after
\* every step the entries a journal held before are still there, unchanged and
\* in order, at the head of the new journal, except for the oldest ones the
\* trim dropped; a journal loses all of them only through delete_thread.
C22_EntriesNeverChangedInPlace ==
  [][\A t \in ThreadIds :
       LET old == JournalEntries(files[t])
           new == JournalEntries(files'[t])
       IN IF ~files'[t].exists
            THEN ~files[t].exists \/ last'.op = "delete"
            ELSE \E k \in 0..Len(old) :
                   /\ Len(new) >= Len(old) - k
                   /\ SubSeq(new, 1, Len(old) - k) = SubSeq(old, k + 1, Len(old))
                   /\ k > 0 => (VariantOf(program) = "trim" /\ Len(new) = TrimLimit)]_vars

C22_Witness ==
  /\ last.op = "append"
  /\ ~last.raised
  /\ Len(JournalEntries(last.pre)) > TrimLimit
  /\ Len(EntriesOf(last.t)) = TrimLimit

\* C30: the stamp of main changes only the thread_id field: the journal holds
\* the thread id afterwards and the same messages as before, and every other
\* journal file is unchanged.
C30_StampChangesOnlyThreadId ==
  [][\A t \in ThreadIds :
       (StampAct(t) /\ ~last'.raised) =>
         /\ LoadMemory(files'[t]).data.thread_id = t
         /\ JournalEntries(files'[t]) = JournalEntries(files[t])
         /\ \A u \in ThreadIds \ {t} : files'[u] = files[u]]_vars

C30_Witness ==
  /\ last.op = "stamp"
  /\ ~last.raised
  /\ Len(JournalEntries(last.pre)) > 1
  /\ JournalEntries(files[last.t]) = JournalEntries(last.pre)

\* The (role, text) pairs of journal entries, in journal order.
RoleText(msgs) == [k \in 1..Len(msgs) |-> ViewMsg(msgs[k].role, msgs[k].text)]

\* Item i is the first of the listing that carries the label.
FirstWithLabel(items, i, label) ==
  /\ i \in 1..Len(items)
  /\ items[i].label = label
  /\ \A j \in 1..(i - 1) : items[j].label # label

\* C23: the selected conversation is resolved by label text, first match in
\* listing order: after a selection the active thread is the first listed
\* thread whose label equals the picked option's label (not the picked one
\* when an earlier conversation has the same first user message), and Delete
\* Selected Chat removes the journal of that first match and no other.
C23_LabelResolvesToFirstMatch ==
  /\ [](  (last.op = "select" /\ last.items # <<>> /\ ~last.raised) =>
            \E i \in 1..Len(GetAllThreads(files).items) :
              /\ FirstWithLabel(GetAllThreads(files).items, i, last.items[1].label)
              /\ session.thread_id = GetAllThreads(files).items[i].tid
              /\ session.messages = RoleText(EntriesOf(session.thread_id)))
  /\ [][(DeleteSelectedChatCallback /\ ~last'.raised) =>
          \E i \in 1..Len(GetAllThreads(files).items) :
            /\ FirstWithLabel(GetAllThreads(files).items, i, session.selected_chat)
            /\ files' = [files EXCEPT ![GetAllThreads(files).items[i].tid] = Absent]]_vars

\* The second of two conversations with the same label was picked and the
\* other one was loaded.
C23_Witness ==
  /\ last.op = "select"
  /\ last.items # <<>>
  /\ last.items[1].tid # session.thread_id
  /\ session.thread_id # NoneVal
  /\ files[last.items[1].tid].exists

\* C24: delete_thread(t) removes the journal of t and no other; when t is the
\* active thread the session becomes a new chat (no thread id, empty view,
\* empty log, placeholder selected), otherwise the session's thread id and
\* view stay as they were.
C24_DeleteThreadFrame ==
  [][\A t \in ThreadIds :
       (DeleteThread(t) \/ (DeleteSelectedChatCallback /\ ~last'.raised /\ last'.t = t)) =>
         /\ files' = [files EXCEPT ![t] = Absent]
         /\ (session.thread_id = t) =>
              /\ session'.thread_id = NoneVal
              /\ session'.messages = <<>>
              /\ session'.log_messages = <<>>
              /\ session'.selected_chat = Placeholder
         /\ (session.thread_id # t) =>
              /\ session'.thread_id = session.thread_id
              /\ session'.messages = session.messages]_vars

\* A journal other than the active one was deleted while a conversation with
\* a non-empty view was open and another journal existed.
C24_Witness ==
  /\ last.op = "delete"
  /\ last.pre.exists
  /\ session.thread_id \notin {NoneVal, last.t}
  /\ session.messages # <<>>
  /\ files[session.thread_id].exists

\* C25: set_active_thread(t) makes t the session's thread and the view the
\* journal's entries of t as (role, text) in journal order, empty for a
\* missing or unparseable journal, without raising; it writes no file.
C25_SetActiveThreadLoadsView ==
  /\ [](  last.op = "set_active_thread" =>
            /\ ~last.raised
            /\ session.thread_id = last.t
            /\ session.messages = RoleText(JournalEntries(last.pre))
            /\ (~last.pre.exists \/ Unparseable(last.pre)) => session.messages = <<>>)
  /\ [][\A t \in ThreadIds : SetActiveThreadCall(t) => files' = files]_vars

\* set_active_thread ran on an unparseable journal and left an empty view.
C25_Witness ==
  /\ last.op = "set_active_thread"
  /\ Unparseable(last.pre)
  /\ session.messages = <<>>
  /\ session.thread_id = last.t

\* The label get_all_threads gives thread t, NoneVal when t is not listed.
LabelOf(fs, t) ==
  LET items == GetAllThreads(fs).items
  IN IF \E i \in 1..Len(items) : items[i].tid = t
       THEN items[CHOOSE i \in 1..Len(items) : items[i].tid = t].label
       ELSE NoneVal

\* Indices of the user entries of a journal.
UserIdx(msgs) == {i \in 1..Len(msgs) : msgs[i].role = "user"}

\* The text of the oldest user entry a journal holds now.
OldestUserText(msgs) ==
  IF UserIdx(msgs) = {} THEN DefaultLabel
  ELSE msgs[CHOOSE i \in UserIdx(msgs) : \A j \in UserIdx(msgs) : i <= j].text

\* The oldest user entry of the journal before the step is still in the
\* journal after it.
FirstUserRetained(old, new) ==
  /\ UserIdx(old) # {}
  /\ \E k \in 1..Len(new) :
       new[k] = old[CHOOSE i \in UserIdx(old) : \A j \in UserIdx(old) : i <= j]

\* C27: the label of a listed conversation is the text of the oldest user
\* entry its journal holds at the time of the listing: a step leaves the label
\* as it was while that entry is retained, and after an append whose trim
\* dropped it the label is the text of the oldest user entry that remains.
C27_LabelIsOldestRetainedUserText ==
  [][\A t \in ThreadIds :
       (LabelOf(files, t) # NoneVal /\ files'[t].exists) =>
         /\ LabelOf(files', t) = OldestUserText(JournalEntries(files'[t]))
         /\ FirstUserRetained(JournalEntries(files[t]), JournalEntries(files'[t]))
              => LabelOf(files', t) = LabelOf(files, t)]_vars

\* A turn on a listed conversation whose trim dropped the first user entry:
\* the listing now shows another label for it.
C27_Witness ==
  /\ last.op = "chat_input"
  /\ last.t # NoneVal
  /\ last.pre.exists
  /\ UserIdx(JournalEntries(last.pre)) # {}
  /\ ~FirstUserRetained(JournalEntries(last.pre), EntriesOf(last.t))
  /\ LabelOf(files, last.t) # OldestUserText(JournalEntries(last.pre))

\* C27 as stated: a listed conversation keeps its label through every step
\* that leaves its journal in place.
C27_LabelNeverChanges ==
  [][\A t \in ThreadIds :
       (LabelOf(files, t) # NoneVal /\ files'[t].exists) =>
         LabelOf(files', t) = LabelOf(files, t)]_vars

\* a ends b.
IsSuffix(a, b) ==
  /\ Len(a) <= Len(b)
  /\ SubSeq(b, Len(b) - Len(a) + 1, Len(b)) = a

RECURSIVE IsSubsequence(_, _)
\* The elements of a occur in b in the same order.
IsSubsequence(a, b) ==
  IF a = <<>> THEN TRUE
  ELSE IF b = <<>> THEN FALSE
  ELSE IF Head(a) = Head(b) THEN IsSubsequence(Tail(a), Tail(b))
  ELSE IsSubsequence(a, Tail(b))

C29_SelectedChatIsListed ==
  session.selected_chat # Placeholder =>
    \E i \in 1..Len(GetAllThreads(files).items) :
      GetAllThreads(files).items[i].label = session.selected_chat

====
